---- MODULE Spec2Model ----
(***************************************************************************)
(* Model of the TTS evaluation application: the storage tables read and    *)
(* written by database.py, the MOS and A/B samplers, the recorders, the    *)
(* Streamlit session flows of app.py, auth.py, mos_eval.py and             *)
(* pairwise.py, and the A/B report of dashboard.py.                        *)
(*                                                                         *)
(* A sampler row is modelled by the sample id(s) it carries; the other     *)
(* columns of a row are immutable attributes of the sample, read from the  *)
(* samples table (sample_model, sample_text).  A model is identified by    *)
(* its model_id; model names are unique per id (import_data.py keys the    *)
(* models by name).  pairwise.py reads the store through config.DB_PATH,   *)
(* a name config.py does not define; the model takes it to be the store    *)
(* of DB_URL that mos_eval.py and app.py use.  The storage is available:   *)
(* no query raises.                                                        *)
(***************************************************************************)
EXTENDS Integers, Sequences, FiniteSets, TLC

VARIABLES
    sample_model,    \* samples.model_id, by sample_id
    sample_text,     \* samples.text, by sample_id
    vote_count,      \* samples.vote_count, by sample_id
    mos_ratings,     \* table mos_ratings: sequence of rows, rating_id = index
    ab_tests,        \* table ab_tests: sequence of rows, test_id = index
    mos_call,        \* arguments of the last MOS sampler call
    mos_result,      \* rows returned by the last MOS sampler call
    ab_call,         \* arguments of the A/B sampler call under study
    ab_result,       \* rows returned by the A/B sampler call under study
    session_state,   \* st.session_state: a function from the keys present
    choice,          \* value of the sidebar "Menu" selectbox
    widgets,         \* values of the A/B page's radio and selectbox
    view,            \* what the last script run rendered
    last_submit,     \* arguments of the last handle_ab_rating_submission call
    mos_rating_call, \* arguments and outcome of the add_mos_rating call under study
    ab_report,       \* what show_ab_results_simplified rendered
    mos_report       \* what show_mos_results_simplified rendered

vars == <<sample_model, sample_text, vote_count, mos_ratings, ab_tests, mos_call,
          mos_result, ab_call, ab_result, session_state, choice, widgets,
          view, last_submit, mos_rating_call, ab_report, mos_report>>

(***************************************************************************)
(* Bounds of the model.                                                    *)
(***************************************************************************)
NumSamples == 3
NumModels == 2
NumTexts == 2
NumUsers == 2
MaxCount == 3
MaxPairCount == 1
MaxRatingCount == 1
MaxExclude == 1
MaxRatings == 2
MaxAbTests == 1

Samples == 1..NumSamples
Models == 1..NumModels
Texts == 1..NumTexts
Users == 1..NumUsers

\* Python None, and the value of an absent optional argument.
None == 0

Min(a, b) == IF a < b THEN a ELSE b

\* list[:n]
Take(seq, n) == SubSeq(seq, 1, Min(n, Len(seq)))

\* The orders in which ORDER BY RANDOM() can return k rows out of the set S.
RECURSIVE RandomOrders(_, _)
RandomOrders(S, k) ==
    IF k = 0 \/ S = {} THEN {<< >>}
    ELSE UNION {{<<x>> \o t : t \in RandomOrders(S \ {x}, k - 1)} : x \in S}

(***************************************************************************)
(* database.py: get_rated_samples                                          *)
(***************************************************************************)
get_rated_samples(user_id) ==
    {mos_ratings[i].sample_id :
        i \in {j \in DOMAIN mos_ratings : mos_ratings[j].user_id = user_id}}

(***************************************************************************)
(* database.py: get_multiple_random_samples                                *)
(***************************************************************************)
\* COUNT(r.rating_id) of the LEFT JOIN with mos_ratings, grouped by sample.
rating_count(s) ==
    Cardinality({i \in DOMAIN mos_ratings : mos_ratings[i].sample_id = s})

\* FROM samples s ... WHERE s.sample_id NOT IN (exclude_ids)
model_samples_mut(exclude_ids) == DOMAIN sample_model
model_samples(exclude_ids) == {s \in DOMAIN sample_model : s \notin exclude_ids}

\* ROW_NUMBER() OVER (PARTITION BY model_id ORDER BY COUNT(rating_id), RANDOM()):
\* every numbering of each partition by 1..n that is ascending in rating_count.
row_numbers_mut(exclude_ids) ==
    LET C == model_samples(exclude_ids)
    IN {rn \in [C -> 1..Cardinality(C)] :
          \A s, t \in C :
             /\ (s # t => rn[s] # rn[t])
             /\ (rating_count(s) < rating_count(t) => rn[s] < rn[t])}
row_numbers(exclude_ids) ==
    LET C == model_samples(exclude_ids)
        part(s) == {x \in C : sample_model[x] = sample_model[s]}
    IN {rn \in [C -> 1..Cardinality(C)] :
          \A s \in C :
             /\ rn[s] <= Cardinality(part(s))
             /\ \A t \in part(s) :
                  /\ (s # t => rn[s] # rn[t])
                  /\ (rating_count(s) < rating_count(t) => rn[s] < rn[t])}

\* WHERE rn <= max_per_model
rn_filter_mut(rn, max_per_model) == DOMAIN rn
rn_filter(rn, max_per_model) == {s \in DOMAIN rn : rn[s] <= max_per_model}

\* ORDER BY rating_count, RANDOM()
order_by_rating_count_mut(S) == RandomOrders(S, Cardinality(S))
order_by_rating_count(S) ==
    {o \in RandomOrders(S, Cardinality(S)) :
        \A i, j \in 1..Len(o) :
            i < j => rating_count(o[i]) <= rating_count(o[j])}

\* The set of results the call can return.
get_multiple_random_samples(count, max_per_model, exclude_ids) ==
    UNION {{Take(o, count) :
               o \in order_by_rating_count(rn_filter(rn, max_per_model))} :
           rn \in row_numbers(exclude_ids)}

(***************************************************************************)
(* The MOS sampler as a function of its arguments and of the tables.       *)
(***************************************************************************)
\* mos_ratings tables in which sample s has c[s] rating rows.
RECURSIVE RatingsFromCounts(_, _)
RatingsFromCounts(c, s) ==
    IF s > NumSamples THEN << >>
    ELSE [i \in 1..c[s] |-> [sample_id |-> s, user_id |-> ((i - 1) % NumUsers) + 1]]
         \o RatingsFromCounts(c, s + 1)

NoCall == [user_id |-> None, count |-> 0, max_per_model |-> 0, exclude_ids |-> {}]
NoAbCall == [user_id |-> None, count |-> 0, exclude_pairs |-> {}, model_a |-> None]
NoSubmit == [selected |-> "none"]
NoReport == [screen |-> "none"]
NoRatingCall == [sample_id |-> None, user_id |-> None, ratings |-> << >>,
                 form |-> FALSE, raised |-> FALSE]

\* app.py: the session state set up by the first script run.
InitialSession ==
    [authenticated |-> FALSE, user_id |-> None, username |-> None,
     is_admin |-> FALSE, page |-> "login"]

\* pairwise.py: the first option of the radio and of the selectbox.
DefaultWidgets == [comparison_mode |-> "Random both models", model_a |-> 1]

LoginView == [screen |-> "login"]

InitRest ==
    /\ vote_count = [s \in DOMAIN sample_model |-> 0]
    /\ ab_tests = << >>
    /\ ab_call = NoAbCall
    /\ ab_result = << >>
    /\ session_state = InitialSession
    /\ choice = "Home"
    /\ widgets = DefaultWidgets
    /\ view = LoginView
    /\ last_submit = NoSubmit
    /\ mos_rating_call = NoRatingCall
    /\ ab_report = NoReport
    /\ mos_report = NoReport

\* The samples tables, up to the naming of the samples: no query orders or
\* selects by the value of a sample_id, so the samples are listed by text
\* and model.
SampleTables ==
    {tab \in [Samples -> Texts \X Models] :
        \A s \in Samples \ {NumSamples} :
            \/ tab[s][1] < tab[s + 1][1]
            \/ tab[s][1] = tab[s + 1][1] /\ tab[s][2] <= tab[s + 1][2]}

InitMosSampler ==
    /\ \E tab \in {t \in SampleTables : \A s \in Samples : t[s][1] = 1} :
          /\ sample_model = [s \in Samples |-> tab[s][2]]
          /\ sample_text = [s \in Samples |-> tab[s][1]]
    /\ mos_ratings \in {RatingsFromCounts(c, 1) : c \in [Samples -> 0..MaxRatingCount]}
    /\ mos_call = NoCall
    /\ mos_result = << >>
    /\ InitRest

\* One call on the tables drawn by the initial state.
CallMosSampler(count, max_per_model, exclude_ids) ==
    /\ mos_call = NoCall
    /\ mos_call' = [user_id |-> None, count |-> count,
                    max_per_model |-> max_per_model, exclude_ids |-> exclude_ids]
    /\ mos_result' \in get_multiple_random_samples(count, max_per_model, exclude_ids)
    /\ UNCHANGED <<sample_model, sample_text, vote_count, mos_ratings, ab_tests, ab_call,
                   ab_result, session_state, choice, widgets, view, last_submit, mos_rating_call, ab_report, mos_report>>

NextMosSampler ==
    \E count \in 1..MaxCount, max_per_model \in 1..MaxCount,
       exclude_ids \in SUBSET Samples :
        CallMosSampler(count, max_per_model, exclude_ids)

SpecMosSampler == InitMosSampler /\ [][NextMosSampler]_vars

\* C1: no sample returned by the MOS sampler has its id in exclude_ids.
C1_NoExcludedSample ==
    \A i \in DOMAIN mos_result : mos_result[i] \notin mos_call.exclude_ids

\* A call with a non-empty exclusion list has returned samples, and a
\* non-excluded sample exists beside the excluded ones.
C1_Witness ==
    /\ mos_call.exclude_ids # {}
    /\ mos_result # << >>
    /\ Cardinality(mos_call.exclude_ids) + Len(mos_result) >= 2

\* C6: no model owns more than max_per_model of the returned samples.
C6_PerModelCap ==
    \A m \in Models :
        Cardinality({i \in DOMAIN mos_result : sample_model[mos_result[i]] = m})
            <= mos_call.max_per_model

\* The cap binds: a model has more candidates than max_per_model, count would
\* admit them, and the model contributes exactly max_per_model samples.
C6_Witness ==
    \E m \in Models :
        /\ mos_call.count > mos_call.max_per_model
        /\ Cardinality({s \in Samples : sample_model[s] = m /\ s \notin mos_call.exclude_ids})
              > mos_call.max_per_model
        /\ Cardinality({i \in DOMAIN mos_result : sample_model[mos_result[i]] = m})
              = mos_call.max_per_model
        /\ mos_call.max_per_model >= 1

(***************************************************************************)
(* database.py: get_ab_test_sample_pairs                                   *)
(***************************************************************************)
\* get_rated_ab_samples: the (sample_a_id, sample_b_id) of the user's rows.
get_rated_ab_samples(user_id) ==
    {<<ab_tests[i].sample_a_id, ab_tests[i].sample_b_id>> :
        i \in {j \in DOMAIN ab_tests : ab_tests[j].user_id = user_id}}

\* The self-join of samples: same text, different sample, different model,
\* and m1.model_name = model_a when the filter is given.
joined_pairs_mut(model_a) ==
    {p \in (DOMAIN sample_model) \X (DOMAIN sample_model) :
        /\ sample_text[p[1]] = sample_text[p[2]]
        /\ p[1] # p[2]
        /\ (model_a # None => sample_model[p[1]] = model_a)}
joined_pairs(model_a) ==
    {p \in (DOMAIN sample_model) \X (DOMAIN sample_model) :
        /\ sample_text[p[1]] = sample_text[p[2]]
        /\ p[1] # p[2]
        /\ sample_model[p[1]] # sample_model[p[2]]
        /\ (model_a # None => sample_model[p[1]] = model_a)}

\* The predicate of the list comprehension that filters excluded pairs.
is_excluded_mut(pair, exclude_pairs) == pair \in exclude_pairs
is_excluded(pair, exclude_pairs) ==
    \E ex_pair \in exclude_pairs :
        \/ <<pair[1], pair[2]>> = ex_pair
        \/ <<pair[2], pair[1]>> = ex_pair

\* if exclude_pairs: pairs = [pair for pair in pairs if not any(...)]
filter_excluded(pairs, exclude_pairs) ==
    IF exclude_pairs # {}
    THEN SelectSeq(pairs, LAMBDA pair : ~is_excluded(pair, exclude_pairs))
    ELSE pairs

\* The set of results the call can return:
\* ORDER BY RANDOM() LIMIT count * 2, the filter, then pairs[:count].
get_ab_test_sample_pairs(count, exclude_pairs, model_a) ==
    {Take(filter_excluded(pairs, exclude_pairs), count) :
        pairs \in RandomOrders(joined_pairs(model_a), count * 2)}

(***************************************************************************)
(* The A/B sampler as a function of its arguments and of the tables.       *)
(***************************************************************************)
InitAbSampler ==
    /\ \E tab \in SampleTables :
          /\ sample_model = [s \in Samples |-> tab[s][2]]
          /\ sample_text = [s \in Samples |-> tab[s][1]]
    /\ mos_ratings = << >>
    /\ mos_call = NoCall
    /\ mos_result = << >>
    /\ InitRest

\* One call on the tables drawn by the initial state.
CallAbSampler(count, exclude_pairs, model_a) ==
    /\ ab_call = NoAbCall
    /\ ab_call' = [user_id |-> None, count |-> count,
                   exclude_pairs |-> exclude_pairs, model_a |-> model_a]
    /\ ab_result' \in get_ab_test_sample_pairs(count, exclude_pairs, model_a)
    /\ UNCHANGED <<sample_model, sample_text, vote_count, mos_ratings, ab_tests, mos_call,
                   mos_result, session_state, choice, widgets, view, last_submit, mos_rating_call, ab_report, mos_report>>

NextAbSampler ==
    \E count \in 1..MaxPairCount, model_a \in Models \cup {None},
       exclude_pairs \in {E \in SUBSET joined_pairs(None) : Cardinality(E) <= MaxExclude} :
        CallAbSampler(count, exclude_pairs, model_a)

SpecAbSampler == InitAbSampler /\ [][NextAbSampler]_vars

\* C2: no pair returned by the A/B sampler matches an element of
\* exclude_pairs, neither as (a,b) nor as (b,a).
C2_NoExcludedPair ==
    \A i \in DOMAIN ab_result :
        /\ <<ab_result[i][1], ab_result[i][2]>> \notin ab_call.exclude_pairs
        /\ <<ab_result[i][2], ab_result[i][1]>> \notin ab_call.exclude_pairs

\* A call returned a pair while the reverse of a joined pair was excluded:
\* the exclusion list names (b,a) and the join holds (a,b).
C2_Witness ==
    /\ ab_result # << >>
    /\ \E ex \in ab_call.exclude_pairs :
          /\ <<ex[2], ex[1]>> \in joined_pairs(ab_call.model_a)
          /\ ex \notin joined_pairs(ab_call.model_a)

\* C5: the two samples of every returned pair are distinct, have the same
\* text and belong to different models.
C5_ValidPair ==
    \A i \in DOMAIN ab_result :
        /\ ab_result[i][1] # ab_result[i][2]
        /\ sample_text[ab_result[i][1]] = sample_text[ab_result[i][2]]
        /\ sample_model[ab_result[i][1]] # sample_model[ab_result[i][2]]

\* A pair was returned from tables that also hold two distinct samples of
\* the same text and the same model.
C5_Witness ==
    /\ ab_result # << >>
    /\ \E a, b \in Samples :
          a # b /\ sample_text[a] = sample_text[b] /\ sample_model[a] = sample_model[b]

(***************************************************************************)
(* st.session_state: a function whose domain is the set of keys present.   *)
(***************************************************************************)
\* key in st.session_state
Has(ss, k) == k \in DOMAIN ss

\* st.session_state.k = v, for every key k of the record r
Merge(ss, r) ==
    [k \in DOMAIN ss \cup DOMAIN r |-> IF k \in DOMAIN r THEN r[k] ELSE ss[k]]

\* del st.session_state[k], for every key k of ks that is present
Del(ss, ks) == [k \in DOMAIN ss \ ks |-> ss[k]]

\* The 0-based index of x in the list seq.
IndexOf(seq, x) == (CHOOSE i \in DOMAIN seq : seq[i] = x) - 1

Range(seq) == {seq[i] : i \in DOMAIN seq}

(***************************************************************************)
(* app.py and auth.py                                                      *)
(***************************************************************************)
\* app.py: if "authenticated" not in st.session_state: ...
init_session_state(ss) ==
    IF ~Has(ss, "authenticated") THEN Merge(ss, InitialSession) ELSE ss

\* auth.py: login_user, for the existing user u with the right password,
\* followed by st.session_state.page = "home" of show_login.
login_user(ss, u) ==
    Merge(ss, [authenticated |-> TRUE, user_id |-> u, username |-> u,
               is_admin |-> FALSE, page |-> "home"])

\* auth.py: logout_user
logout_user(ss) == Del(ss, {"authenticated", "user_id", "username", "is_admin"})

(***************************************************************************)
(* mos_eval.py                                                             *)
(***************************************************************************)
MosCount == 10
MosMaxPerModel == 5

\* A widget event of one script run: the button pressed, if any.
NoEvent == [type |-> "none", id |-> None]

\* handle_start_evaluation line 43 and load_samples line 56: the exclusion
\* list handed to the sampler.
mos_exclude_ids_mut(ss) == IF Has(ss, "rated_samples") THEN ss.rated_samples ELSE {}
mos_exclude_ids(ss) == get_rated_samples(ss.user_id)

\* The sampler call of handle_start_evaluation and of load_samples, and the
\* assignments that follow it: the possible [ss, call, result].
fetch_samples(ss) ==
    LET rated_samples == mos_exclude_ids(ss)
    IN {[ss |-> IF samples # << >>
                THEN Merge(ss, [mos_samples |-> samples, rated_samples |-> {}])
                ELSE ss,
         call |-> [user_id |-> ss.user_id, count |-> MosCount,
                   max_per_model |-> MosMaxPerModel, exclude_ids |-> rated_samples],
         result |-> samples] :
           samples \in get_multiple_random_samples(MosCount, MosMaxPerModel, rated_samples)}

\* load_samples, up to its return statement.
load_samples(ss, call, result) ==
    IF ~Has(ss, "mos_samples") THEN fetch_samples(ss)
    ELSE {[ss |-> ss, call |-> call, result |-> result]}

clear_current_rating(ss) ==
    Del(ss, {"current_rating_sample_id", "current_rating_sample_index"})

reset_evaluation(ss) ==
    Del(Merge(ss, [mos_started |-> FALSE]),
        {"mos_samples", "rated_samples", "current_rating_sample_id",
         "current_rating_sample_index"})

\* config.py: the ids of MOS_ATTRIBUTES.
MOS_ATTRIBUTES ==
    {"naturalness", "intelligibility", "pronunciation", "prosody", "overall_rating"}

\* A score is counted in half points: the value v stands for v / 2.
\* st.slider(label, 1.0, 5.0, 3.0, 0.5): the values of a slider and the
\* value it shows first.
SliderValues == 2..10
SliderDefault == 6

\* ratings.get(key): None for a key the dictionary does not hold.
dict_get(ratings, key) == IF key \in DOMAIN ratings THEN ratings[key] ELSE None

\* The row of the INSERT of add_mos_rating.
mos_row(sample_id, user_id, ratings) ==
    [sample_id |-> sample_id, user_id |-> user_id,
     naturalness |-> dict_get(ratings, "naturalness"),
     intelligibility |-> dict_get(ratings, "intelligibility"),
     pronunciation |-> dict_get(ratings, "pronunciation"),
     prosody |-> dict_get(ratings, "prosody"),
     speaker_similarity |-> dict_get(ratings, "speaker_similarity"),
     overall_rating |-> dict_get(ratings, "overall_rating")]

\* create_db.py: CHECK (c >= 1 AND c <= 5) of a score column, which a NULL
\* satisfies as every CHECK whose condition is unknown.
check_score(v) == v = None \/ (v >= 2 /\ v <= 10)

\* The CHECK constraints of table mos_ratings.
check_constraints_mut(row) == TRUE
check_constraints(row) ==
    /\ check_score(row.naturalness)
    /\ check_score(row.intelligibility)
    /\ check_score(row.pronunciation)
    /\ check_score(row.prosody)
    /\ check_score(row.speaker_similarity)
    /\ check_score(row.overall_rating)

\* add_mos_rating: INSERT INTO mos_ratings ... RETURNING rating_id; a row
\* that fails a CHECK makes cursor.execute raise before the commit.
add_mos_rating(table, sample_id, user_id, ratings) ==
    LET row == mos_row(sample_id, user_id, ratings)
    IN IF check_constraints(row) THEN Append(table, row) ELSE table

\* handle_rating_submission line 136: ratings["speaker_similarity"] = None
form_ratings(sliders) == Merge(sliders, [speaker_similarity |-> None])

\* What display_samples_grid and show_progress_and_navigation render.
MosGridView_mut(ss) ==
    [screen |-> "mos_grid",
     samples |-> ss.mos_samples,
     user_id |-> ss.user_id,
     rated |-> {x \in Range(ss.mos_samples) : x \in ss.rated_samples},
     form |-> IF Has(ss, "current_rating_sample_id")
                 /\ ss.current_rating_sample_id \in Range(ss.mos_samples)
              THEN ss.current_rating_sample_id ELSE None,
     progress |-> <<Cardinality(ss.rated_samples), Len(ss.mos_samples)>>,
     completed |-> Cardinality(ss.rated_samples) >= 1]
MosGridView(ss) ==
    [screen |-> "mos_grid",
     samples |-> ss.mos_samples,
     user_id |-> ss.user_id,
     rated |-> {x \in Range(ss.mos_samples) : x \in ss.rated_samples},
     form |-> IF Has(ss, "current_rating_sample_id")
                 /\ ss.current_rating_sample_id \in Range(ss.mos_samples)
              THEN ss.current_rating_sample_id ELSE None,
     progress |-> <<Cardinality(ss.rated_samples), Len(ss.mos_samples)>>,
     completed |-> Cardinality(ss.rated_samples) = Len(ss.mos_samples)]

\* display_sample: the "Rate" button of a sample that has been rated in
\* this batch is labelled "Rated" and stays an enabled button.
rate_button_enabled(ss, sample_id) == TRUE

\* display_samples_grid and show_progress_and_navigation under the event ev,
\* for a session that holds a batch.
mos_grid(ss, ev, ratings, call, result) ==
    LET base == [ss |-> ss, ratings |-> ratings, call |-> call,
                 result |-> result, rerun |-> FALSE, view |-> LoginView]
    IN IF ev.type = "rate"
       THEN LET ss1 == Merge(ss, [current_rating_sample_id |-> ev.id,
                                  current_rating_sample_index |->
                                      IndexOf(ss.mos_samples, ev.id)])
            IN [base EXCEPT !.ss = ss1, !.view = MosGridView(ss1)]
       ELSE IF ev.type = "submit"
       THEN \* handle_rating_submission
            LET sample_id == ss.current_rating_sample_id
            IN [base EXCEPT
                  !.ratings = add_mos_rating(ratings, sample_id, ss.user_id,
                                             form_ratings(ev.id)),
                  !.ss = clear_current_rating(
                            Merge(ss, [rated_samples |->
                                          ss.rated_samples \cup {sample_id}])),
                  !.rerun = TRUE]
       ELSE IF ev.type = "cancel"
       THEN [base EXCEPT !.ss = clear_current_rating(ss), !.rerun = TRUE]
       ELSE IF ev.type = "new"
       THEN [base EXCEPT !.ss = reset_evaluation(ss), !.rerun = TRUE]
       ELSE [base EXCEPT !.view = MosGridView(ss)]

\* One run of show_mos_evaluation under the event ev: the possible outcomes
\* [ss, ratings, call, result, rerun, view].
show_mos_evaluation(ss0, ev, ratings, call, result) ==
    LET ss == IF ~Has(ss0, "mos_started")
              THEN Merge(ss0, [mos_started |-> FALSE]) ELSE ss0
        base == [ss |-> ss, ratings |-> ratings, call |-> call,
                 result |-> result, rerun |-> FALSE, view |-> LoginView]
    IN IF ~ss.mos_started
       THEN \* handle_start_evaluation
            IF ev.type = "start"
            THEN {[base EXCEPT !.ss = f.ss, !.call = f.call,
                               !.result = f.result, !.rerun = TRUE] :
                     f \in fetch_samples(Merge(ss, [mos_started |-> TRUE]))}
            ELSE {[base EXCEPT !.view =
                      [screen |-> "mos_start",
                       previously_rated |-> Cardinality(get_rated_samples(ss.user_id))]]}
       ELSE {IF ~Has(l.ss, "mos_samples")
             THEN \* return st.session_state.mos_samples raises AttributeError
                  [base EXCEPT !.ss = l.ss, !.call = l.call, !.result = l.result,
                               !.view = [screen |-> "mos_error"]]
             ELSE IF l.ss.mos_samples = << >>
             THEN [base EXCEPT !.ss = l.ss, !.call = l.call, !.result = l.result,
                               !.view = [screen |-> "mos_none"]]
             ELSE mos_grid(l.ss, ev, ratings, l.call, l.result) :
                l \in load_samples(ss, call, result)}

\* A script run of the MOS page and the run that st.rerun() starts.
mos_script(ss, ev) ==
    UNION {IF o.rerun
           THEN show_mos_evaluation(o.ss, NoEvent, o.ratings, o.call, o.result)
           ELSE {o} :
             o \in show_mos_evaluation(ss, ev, mos_ratings, mos_call, mos_result)}

(***************************************************************************)
(* The session of the MOS page.                                            *)
(***************************************************************************)
\* The samples table of the session specifications.
SessionSampleModel == <<1, 2, 1>>
SessionSampleText == <<1, 1, 2>>

InitSession ==
    /\ sample_model = SessionSampleModel
    /\ sample_text = SessionSampleText
    /\ mos_ratings = << >>
    /\ mos_call = NoCall
    /\ mos_result = << >>
    /\ InitRest

\* The samples table of the MOS session: one sample of each of two models.
MosSessionSampleModel == <<1, 2>>
MosSessionSampleText == <<1, 1>>

InitMosSession ==
    /\ sample_model = MosSessionSampleModel
    /\ sample_text = MosSessionSampleText
    /\ mos_ratings = << >>
    /\ mos_call = NoCall
    /\ mos_result = << >>
    /\ InitRest

\* show_login: a registered user submits the login form; the rerun renders
\* the sidebar with the first menu entry and show_home.
Login(u) ==
    /\ ~session_state.authenticated
    /\ session_state' = login_user(session_state, u)
    /\ choice' = "Home"
    /\ view' = [screen |-> "Home"]
    /\ UNCHANGED <<sample_model, sample_text, vote_count, mos_ratings, ab_tests, mos_call,
                   mos_result, ab_call, ab_result, widgets, last_submit, mos_rating_call, ab_report, mos_report>>

\* show_sidebar: the "Logout" button; the rerun starts with the
\* initialisation block of app.py and renders show_login.
Logout ==
    /\ session_state.authenticated
    /\ session_state' = init_session_state(logout_user(session_state))
    /\ choice' = "Home"
    /\ widgets' = DefaultWidgets
    /\ view' = LoginView
    /\ UNCHANGED <<sample_model, sample_text, vote_count, mos_ratings, ab_tests, mos_call,
                   mos_result, ab_call, ab_result, last_submit, mos_rating_call, ab_report, mos_report>>

\* The menu entry "Home" is selected.
SelectHome ==
    /\ session_state.authenticated
    /\ choice # "Home"
    /\ choice' = "Home"
    /\ widgets' = DefaultWidgets
    /\ view' = [screen |-> "Home"]
    /\ UNCHANGED <<sample_model, sample_text, vote_count, mos_ratings, ab_tests, mos_call,
                   mos_result, ab_call, ab_result, session_state, last_submit, mos_rating_call, ab_report, mos_report>>

\* A script run of the MOS page under the event ev.
MosRun(ev) ==
    /\ \E o \in mos_script(session_state, ev) :
          /\ session_state' = o.ss
          /\ mos_ratings' = o.ratings
          /\ mos_call' = o.call
          /\ mos_result' = o.result
          /\ view' = o.view
    /\ choice' = "MOS Evaluation"
    /\ UNCHANGED <<sample_model, sample_text, vote_count, ab_tests, ab_call, ab_result,
                   widgets, last_submit, mos_rating_call, ab_report, mos_report>>

\* The menu entry "MOS Evaluation" is selected.
SelectMos ==
    /\ session_state.authenticated
    /\ choice # "MOS Evaluation"
    /\ MosRun(NoEvent)

OnMosPage == session_state.authenticated /\ choice = "MOS Evaluation"

\* The "Start Evaluation" button.
MosStartEvaluation ==
    /\ OnMosPage
    /\ view.screen = "mos_start"
    /\ MosRun([type |-> "start", id |-> None])

\* The "Rate" button of a displayed sample.
MosRate(sample_id) ==
    /\ OnMosPage
    /\ view.screen = "mos_grid"
    /\ sample_id \in Range(view.samples)
    /\ rate_button_enabled(session_state, sample_id)
    /\ MosRun([type |-> "rate", id |-> sample_id])

\* The sliders of the form as the session specifications submit them: every
\* slider at the value it shows first.
SessionSliders == {[a \in MOS_ATTRIBUTES |-> SliderDefault]}

\* The "Submit Rating" button of the displayed form.
MosSubmitRating ==
    /\ OnMosPage
    /\ view.screen = "mos_grid"
    /\ view.form # None
    /\ Len(mos_ratings) < MaxRatings
    /\ \E sliders \in SessionSliders : MosRun([type |-> "submit", id |-> sliders])

\* The "Cancel" button of the displayed form.
MosCancel ==
    /\ OnMosPage
    /\ view.screen = "mos_grid"
    /\ view.form # None
    /\ MosRun([type |-> "cancel", id |-> None])

\* The "Get New Samples" button.
MosGetNewSamples ==
    /\ OnMosPage
    /\ view.screen = "mos_grid"
    /\ MosRun([type |-> "new", id |-> None])

NextMos ==
    \/ \E u \in Users : Login(u)
    \/ Logout
    \/ SelectHome
    \/ SelectMos
    \/ MosStartEvaluation
    \/ \E sample_id \in DOMAIN sample_model : MosRate(sample_id)
    \/ MosSubmitRating
    \/ MosCancel
    \/ MosGetNewSamples

SpecMos == InitMosSession /\ [][NextMos]_vars

\* C9: at most one MOS rating row is ever written for a given
\* (sample, rater).
C9_OneRowPerSampleAndRater ==
    \A i, j \in DOMAIN mos_ratings :
        (/\ mos_ratings[i].sample_id = mos_ratings[j].sample_id
         /\ mos_ratings[i].user_id = mos_ratings[j].user_id) => i = j

\* C10: whenever the session obtains a batch (through "Start Evaluation",
\* also after "Get New Samples"), the batch holds no sample for which a
\* rating by the logged-in rater is stored.
C10_BatchExcludesStoredRatings ==
    [][(~Has(session_state, "mos_samples") /\ Has(session_state', "mos_samples"))
          => \A k \in DOMAIN session_state'.mos_samples :
               \A i \in DOMAIN mos_ratings' :
                  mos_ratings'[i].user_id = session_state'.user_id
                     => mos_ratings'[i].sample_id # session_state'.mos_samples[k]]_vars

\* The rater holds a batch that was requested after one of the rater's
\* ratings had been stored, while that rated sample is not in the batch.
C10_Witness ==
    /\ Has(session_state, "mos_samples")
    /\ session_state.authenticated
    /\ mos_call.user_id = session_state.user_id
    /\ mos_call.exclude_ids # {}
    /\ session_state.rated_samples = {}
    /\ \E i \in DOMAIN mos_ratings :
          /\ mos_ratings[i].user_id = session_state.user_id
          /\ mos_ratings[i].sample_id \notin Range(session_state.mos_samples)

(***************************************************************************)
(* pairwise.py                                                             *)
(***************************************************************************)
AbCount == 5

RandomMode == "Random both models"
SelectMode == "Select model A, random model B"

\* samples.audio_url: the locator of the audio of sample s.
audio_url(s) == <<"audio", s>>

\* pair_id = f"{pair['sample_a_id']}_{pair['sample_b_id']}": a key that is
\* distinct for distinct (sample_a_id, sample_b_id).
pair_id_of(pair) == <<pair[1], pair[2]>>

\* handle_ab_rating_submission: the displayed choice mapped to the stored one.
selected_value_mut(swap_position, selected) ==
    IF selected = "A" THEN "A" ELSE IF selected = "B" THEN "B" ELSE "tie"
selected_value(swap_position, selected) ==
    IF swap_position
    THEN IF selected = "A" THEN "B"
         ELSE IF selected = "B" THEN "A"
         ELSE "tie"
    ELSE IF selected = "A" THEN "A" ELSE IF selected = "B" THEN "B" ELSE "tie"

\* add_ab_rating: INSERT INTO ab_tests ... RETURNING test_id
add_ab_rating(tests, sample_a_id, sample_b_id, user_id, selected) ==
    Append(tests, [sample_a_id |-> sample_a_id, sample_b_id |-> sample_b_id,
                   user_id |-> user_id, selected_sample |-> selected])

\* display_sample_pairs_grid: the audio played under "Sample A" (column 1)
\* and under "Sample B" (column 2).
column_audio_mut(pair, swap_position, col) ==
    IF col = 1 THEN audio_url(pair[1]) ELSE audio_url(pair[2])
column_audio(pair, swap_position, col) ==
    IF col = 1
    THEN IF swap_position THEN audio_url(pair[2]) ELSE audio_url(pair[1])
    ELSE IF swap_position THEN audio_url(pair[1]) ELSE audio_url(pair[2])

\* display_sample_pairs_grid: the swap states after the loop has visited
\* the pairs of the list: random.choice for every pair_id not yet present.
assign_swap_states_mut(ss, pairs) ==
    LET ids == {pair_id_of(pairs[i]) : i \in DOMAIN pairs}
        old == IF Has(ss, "pair_swapped_states") THEN ss.pair_swapped_states
               ELSE << >>
    IN {[id \in DOMAIN old \cup ids |-> IF id \in ids THEN r[id] ELSE old[id]] :
           r \in [ids -> BOOLEAN]}
assign_swap_states(ss, pairs) ==
    LET old == IF Has(ss, "pair_swapped_states") THEN ss.pair_swapped_states
               ELSE << >>
        ids == {pair_id_of(pairs[i]) : i \in DOMAIN pairs}
        new == ids \ DOMAIN old
    IN {[id \in DOMAIN old \cup new |-> IF id \in new THEN r[id] ELSE old[id]] :
           r \in [new -> BOOLEAN]}

clear_current_pair_rating(ss) ==
    Del(ss, {"current_rating_pair_id", "current_rating_pair_index"})

reset_ab_evaluation(ss) ==
    Del(Merge(ss, [ab_started |-> FALSE]),
        {"ab_samples", "rated_pairs", "current_rating_pair_id",
         "current_rating_pair_index"})

\* What display_sample_pairs_grid and show_progress_and_navigation render.
AbGridView(ss) ==
    LET pairs == ss.ab_samples
        ids == {pair_id_of(pairs[i]) : i \in DOMAIN pairs}
    IN [screen |-> "ab_grid",
        pairs |-> pairs,
        user_id |-> ss.user_id,
        col1 |-> [id \in ids |-> column_audio(id, ss.pair_swapped_states[id], 1)],
        col2 |-> [id \in ids |-> column_audio(id, ss.pair_swapped_states[id], 2)],
        rated |-> {id \in ids : id \in ss.rated_pairs},
        forms |-> {id \in ids : Has(ss, "current_rating_pair_id")
                                  /\ ss.current_rating_pair_id = id},
        progress |-> <<Cardinality(ss.rated_pairs), Len(pairs)>>,
        completed |-> Cardinality(ss.rated_pairs) = Len(pairs)]

\* display_sample_pairs_grid and show_progress_and_navigation under the
\* event ev, for a session that holds a batch: the possible outcomes.
ab_grid(ss, ev, tests, submit) ==
    LET base == [ss |-> ss, tests |-> tests,
                 submit |-> submit, rerun |-> FALSE, view |-> LoginView]
        pairs == ss.ab_samples
    IN IF ev.type \in {"submit", "cancel"}
       THEN \* the loop runs up to the pair whose form is open
            LET pair_id == ss.current_rating_pair_id
                i == IndexOf(pairs, pair_id) + 1
            IN {LET ss1 == Merge(ss, [pair_swapped_states |-> sw])
                    swap_position == sw[pair_id]
                IN IF ev.type = "submit"
                   THEN \* handle_ab_rating_submission
                        [base EXCEPT
                           !.tests = add_ab_rating(tests, pairs[i][1], pairs[i][2],
                                        ss.user_id,
                                        selected_value(swap_position, ev.id)),
                           !.submit = [pair |-> pairs[i], pair_id |-> pair_id,
                                       selected |-> ev.id,
                                       swap_position |-> swap_position],
                           !.ss = clear_current_pair_rating(
                                     Merge(ss1, [rated_pairs |->
                                                   ss.rated_pairs \cup {pair_id}])),
                           !.rerun = TRUE]
                   ELSE [base EXCEPT !.ss = clear_current_pair_rating(ss1),
                                     !.rerun = TRUE] :
                  sw \in assign_swap_states(ss, SubSeq(pairs, 1, i))}
       ELSE {LET ss1 == Merge(ss, [pair_swapped_states |-> sw])
             IN IF ev.type = "rate"
                THEN LET ss2 == Merge(ss1, [current_rating_pair_id |-> ev.id,
                                            current_rating_pair_index |->
                                                IndexOf(pairs, ev.id)])
                     IN [base EXCEPT !.ss = ss2, !.view = AbGridView(ss2)]
                ELSE IF ev.type = "new"
                THEN [base EXCEPT !.ss = reset_ab_evaluation(ss1), !.rerun = TRUE]
                ELSE [base EXCEPT !.ss = ss1, !.view = AbGridView(ss1)] :
               sw \in assign_swap_states(ss, pairs)}

\* One run of show_ab_evaluation under the event ev and the widget values w:
\* the possible outcomes [ss, tests, submit, rerun, view].
show_ab_evaluation(ss0, ev, w, tests, submit) ==
    LET ss1 == IF ~Has(ss0, "ab_started")
               THEN Merge(ss0, [ab_started |-> FALSE]) ELSE ss0
        ss2 == IF ~Has(ss1, "current_comparison_mode")
               THEN Merge(ss1, [current_comparison_mode |-> RandomMode]) ELSE ss1
        comparison_mode == w.comparison_mode
        ss == IF comparison_mode # ss2.current_comparison_mode
              THEN Del(Merge(ss2, [ab_started |-> FALSE,
                                   current_comparison_mode |-> comparison_mode]),
                       {"ab_samples", "rated_pairs"})
              ELSE ss2
        model_a == IF comparison_mode = SelectMode THEN w.model_a ELSE None
        base == [ss |-> ss, tests |-> tests,
                 submit |-> submit, rerun |-> FALSE, view |-> LoginView]
    IN IF ~ss.ab_started
       THEN IF ev.type = "start"
            THEN LET rated_pairs == get_rated_ab_samples(ss.user_id)
                     started == Merge(ss, [ab_started |-> TRUE])
                 IN {[base EXCEPT
                        !.ss = IF sample_pairs # << >>
                               THEN Merge(started, [ab_samples |-> sample_pairs,
                                                    rated_pairs |-> {},
                                                    selected_model_a |-> model_a])
                               ELSE started,
                        !.rerun = TRUE] :
                       sample_pairs \in
                          get_ab_test_sample_pairs(AbCount, rated_pairs, model_a)}
            ELSE {[base EXCEPT !.view =
                      [screen |-> "ab_start",
                       previously_rated |->
                           Cardinality({i \in DOMAIN tests :
                                           tests[i].user_id = ss.user_id})]]}
       ELSE IF ~Has(ss, "ab_samples")
       THEN {[base EXCEPT !.view = [screen |-> "ab_none"]]}
       ELSE ab_grid(ss, ev, tests, submit)

\* A script run of the A/B page and the run that st.experimental_rerun()
\* starts.
ab_script(ss, ev, w) ==
    UNION {IF o.rerun
           THEN show_ab_evaluation(o.ss, NoEvent, w, o.tests, o.submit)
           ELSE {o} :
             o \in show_ab_evaluation(ss, ev, w, ab_tests, last_submit)}

(***************************************************************************)
(* The session of the A/B page.                                            *)
(***************************************************************************)
\* A script run of the A/B page under the event ev with the widget values w.
AbRun(ev, w) ==
    /\ \E o \in ab_script(session_state, ev, w) :
          /\ session_state' = o.ss
          /\ ab_tests' = o.tests
          /\ last_submit' = o.submit
          /\ view' = o.view
    /\ choice' = "A/B Evaluation"
    /\ widgets' = w
    /\ UNCHANGED <<sample_model, sample_text, vote_count, mos_ratings, mos_call,
                   mos_result, ab_call, ab_result, mos_rating_call, ab_report, mos_report>>

\* The menu entry "A/B Evaluation" is selected.
SelectAb ==
    /\ session_state.authenticated
    /\ choice # "A/B Evaluation"
    /\ AbRun(NoEvent, DefaultWidgets)

OnAbPage == session_state.authenticated /\ choice = "A/B Evaluation"

\* The "Comparison mode" radio.
AbSetComparisonMode(mode) ==
    /\ OnAbPage
    /\ mode # widgets.comparison_mode
    /\ AbRun(NoEvent, [widgets EXCEPT !.comparison_mode = mode])

\* The "Select model A" selectbox.
AbSelectModelA(model_a) ==
    /\ OnAbPage
    /\ widgets.comparison_mode = SelectMode
    /\ model_a # widgets.model_a
    /\ AbRun(NoEvent, [widgets EXCEPT !.model_a = model_a])

\* The "Start Evaluation" button.
AbStartEvaluation ==
    /\ OnAbPage
    /\ view.screen = "ab_start"
    /\ AbRun([type |-> "start", id |-> None], widgets)

\* The "Rate this pair" button of a displayed pair.
AbRate(pair_id) ==
    /\ OnAbPage
    /\ view.screen = "ab_grid"
    /\ pair_id \in Range(view.pairs)
    /\ AbRun([type |-> "rate", id |-> pair_id], widgets)

\* The "Submit Rating" button of the displayed form, with the radio choice.
AbSubmitRating(selected) ==
    /\ OnAbPage
    /\ view.screen = "ab_grid"
    /\ view.forms # {}
    /\ Len(ab_tests) < MaxAbTests
    /\ AbRun([type |-> "submit", id |-> selected], widgets)

\* The "Cancel" button of the displayed form.
AbCancel ==
    /\ OnAbPage
    /\ view.screen = "ab_grid"
    /\ view.forms # {}
    /\ AbRun([type |-> "cancel", id |-> None], widgets)

\* The "Get New Sample Pairs" button.
AbGetNewSamplePairs ==
    /\ OnAbPage
    /\ view.screen = "ab_grid"
    /\ AbRun([type |-> "new", id |-> None], widgets)

NextAb ==
    \/ \E u \in Users : Login(u)
    \/ Logout
    \/ SelectHome
    \/ SelectAb
    \/ \E mode \in {RandomMode, SelectMode} : AbSetComparisonMode(mode)
    \/ \E model_a \in Models : AbSelectModelA(model_a)
    \/ AbStartEvaluation
    \/ \E pair_id \in (DOMAIN sample_model) \X (DOMAIN sample_model) : AbRate(pair_id)
    \/ \E selected \in {"A", "B", "Both are equivalent"} : AbSubmitRating(selected)
    \/ AbCancel
    \/ AbGetNewSamplePairs

SpecAb == InitSession /\ [][NextAb]_vars

\* C3: the displayed choice is un-swapped before it is stored: with swap a
\* displayed "A" is stored as "B" and a displayed "B" as "A", without swap
\* "A" is stored as "A" and "B" as "B", the equivalent choice is stored as
\* "tie" for both swap values, and every stored verdict is A, B or tie.
C3_UnswappedVerdictStored ==
    /\ \A i \in DOMAIN ab_tests : ab_tests[i].selected_sample \in {"A", "B", "tie"}
    /\ last_submit.selected # "none" =>
          LET stored == ab_tests[Len(ab_tests)].selected_sample
              shown == last_submit.selected
          IN /\ (last_submit.swap_position /\ shown = "A") => stored = "B"
             /\ (last_submit.swap_position /\ shown = "B") => stored = "A"
             /\ (~last_submit.swap_position /\ shown = "A") => stored = "A"
             /\ (~last_submit.swap_position /\ shown = "B") => stored = "B"
             /\ shown = "Both are equivalent" => stored = "tie"

\* A displayed "A" was submitted for a swapped pair and stored as "B".
C3_Witness ==
    /\ last_submit.selected = "A"
    /\ last_submit.swap_position
    /\ ab_tests # << >>
    /\ ab_tests[Len(ab_tests)].selected_sample = "B"

\* C4: when the swap flag of a displayed pair is set, column 1 ("Sample A")
\* plays the audio of the stored B sample and column 2 that of the stored A
\* sample; and every comparison row is written with the displayed pair's
\* stored sample ids, with verdict A exactly when the rater chose the column
\* that played the audio of sample_a_id and verdict B exactly when the rater
\* chose the column that played the audio of sample_b_id.
C4_VerdictNamesChosenAudio ==
    /\ [](view.screen = "ab_grid" =>
            \A i \in DOMAIN view.pairs :
               LET id == pair_id_of(view.pairs[i])
               IN session_state.pair_swapped_states[id] =>
                     /\ view.col1[id] = audio_url(view.pairs[i][2])
                     /\ view.col2[id] = audio_url(view.pairs[i][1]))
    /\ [][Len(ab_tests') > Len(ab_tests) =>
            LET row == ab_tests'[Len(ab_tests')]
                id == <<row.sample_a_id, row.sample_b_id>>
                shown == last_submit'.selected
                chose(audio) == \/ shown = "A" /\ view.col1[id] = audio
                                \/ shown = "B" /\ view.col2[id] = audio
            IN /\ view.screen = "ab_grid"
               /\ id \in view.forms
               /\ \E i \in DOMAIN view.pairs : view.pairs[i] = id
               /\ row.selected_sample = "A" <=> chose(audio_url(row.sample_a_id))
               /\ row.selected_sample = "B" <=> chose(audio_url(row.sample_b_id))]_vars

\* The rater chose the column labelled "Sample B" of a swapped pair, which
\* played the audio of the stored A sample, and verdict A was stored.
C4_Witness ==
    /\ last_submit.selected = "B"
    /\ last_submit.swap_position
    /\ ab_tests # << >>
    /\ ab_tests[Len(ab_tests)].selected_sample = "A"
    /\ ab_tests[Len(ab_tests)].sample_a_id = last_submit.pair[1]

\* C7: within one A/B batch no unordered pair of samples appears more than
\* once: the grid never shows a second (a,b) nor the reversed (b,a).
C7_NoUnorderedPairTwice ==
    view.screen = "ab_grid" =>
        \A i, j \in DOMAIN view.pairs :
            i # j => /\ view.pairs[i] # view.pairs[j]
                     /\ view.pairs[i] # <<view.pairs[j][2], view.pairs[j][1]>>

\* C8: a rater is presented only a batch that was selected for that rater:
\* the grid shown to the logged-in rater holds the result of a sampler call
\* made for that rater, with that rater's own exclusion list.
C8_BatchBelongsToRater ==
    view.screen = "mos_grid" =>
        /\ view.samples = mos_result
        /\ mos_call.user_id = session_state.user_id

\* C11: the swap flag of a presented pair is chosen once and never changes:
\* every step of the session (re-render, form open, cancel, submission, new
\* batch, logout) keeps every assigned flag, and a submission un-swaps the
\* verdict with the flag under which the pair was displayed.
C11_SwapFlagStable ==
    [][/\ Has(session_state, "pair_swapped_states") =>
             /\ Has(session_state', "pair_swapped_states")
             /\ \A id \in DOMAIN session_state.pair_swapped_states :
                   /\ id \in DOMAIN session_state'.pair_swapped_states
                   /\ session_state'.pair_swapped_states[id]
                         = session_state.pair_swapped_states[id]
       /\ Len(ab_tests') > Len(ab_tests) =>
             /\ Has(session_state, "pair_swapped_states")
             /\ last_submit'.pair_id \in DOMAIN session_state.pair_swapped_states
             /\ last_submit'.swap_position
                   = session_state.pair_swapped_states[last_submit'.pair_id]]_vars

\* A verdict was submitted for a swapped pair, the batch was given up with
\* "Get New Sample Pairs", and the pair still carries the flag it was
\* displayed and submitted with.
C11_Witness ==
    /\ last_submit.selected # "none"
    /\ last_submit.swap_position
    /\ ~Has(session_state, "ab_samples")
    /\ Has(session_state, "pair_swapped_states")
    /\ session_state.pair_swapped_states[last_submit.pair_id]

\* C12: recording an A/B verdict increments the vote counter of both of its
\* samples: in every state each sample's vote counter equals the number of
\* stored comparisons that reference the sample.
C12_VoteCountMatchesComparisons ==
    \A s \in DOMAIN sample_model :
        vote_count[s] =
            Cardinality({i \in DOMAIN ab_tests :
                            s \in {ab_tests[i].sample_a_id, ab_tests[i].sample_b_id}})

\* C13 as stated: if fewer than count samples remain after removing
\* exclude_ids, the MOS sampler returns all of the remaining samples, each
\* exactly once.
C13_ReturnsAllRemaining ==
    LET remaining == DOMAIN sample_model \ mos_call.exclude_ids
    IN (mos_call # NoCall /\ Cardinality(remaining) < mos_call.count) =>
          /\ Range(mos_result) = remaining
          /\ Len(mos_result) = Cardinality(remaining)

\* C13 amended: if fewer than count samples remain after removing
\* exclude_ids and keeping at most max_per_model samples of each model, the
\* MOS sampler returns exactly the kept samples, each exactly once: all the
\* remaining samples of a model that has at most max_per_model of them, and
\* max_per_model remaining samples of every other model.
C13_ReturnsAllKept ==
    LET remaining == DOMAIN sample_model \ mos_call.exclude_ids
        of_model(m) == {s \in remaining : sample_model[s] = m}
        kept(m) == Min(Cardinality(of_model(m)), mos_call.max_per_model)
        total == Cardinality({mk \in Models \X (1..NumSamples) : mk[2] <= kept(mk[1])})
    IN (mos_call # NoCall /\ total < mos_call.count) =>
          /\ Range(mos_result) \subseteq remaining
          /\ Len(mos_result) = Cardinality(Range(mos_result))
          /\ Len(mos_result) = total
          /\ \A m \in Models :
                Cardinality(Range(mos_result) \cap of_model(m)) = kept(m)

\* A call with count above the number of kept samples returned them all,
\* from two models, while the cap held back a remaining sample.
C13_Witness ==
    LET remaining == DOMAIN sample_model \ mos_call.exclude_ids
    IN /\ mos_call # NoCall
       /\ Len(mos_result) < mos_call.count
       /\ Len(mos_result) < Cardinality(remaining)
       /\ \E i, j \in DOMAIN mos_result :
             sample_model[mos_result[i]] # sample_model[mos_result[j]]

\* C14: the MOS sampler prefers the least-rated samples of each model: for
\* every returned sample s and every non-excluded sample t of the same model
\* that is not returned, the rating count of s is at most that of t.
C14_LeastRatedOfModelFirst ==
    \A i \in DOMAIN mos_result :
        \A t \in DOMAIN sample_model :
            (/\ t \notin mos_call.exclude_ids
             /\ t \notin Range(mos_result)
             /\ sample_model[t] = sample_model[mos_result[i]])
                => rating_count(mos_result[i]) <= rating_count(t)

\* A returned sample has fewer ratings than a non-excluded sample of its
\* model that was left out, while max_per_model admitted both.
C14_Witness ==
    \E i \in DOMAIN mos_result :
        \E t \in DOMAIN sample_model :
            /\ t \notin mos_call.exclude_ids
            /\ t \notin Range(mos_result)
            /\ sample_model[t] = sample_model[mos_result[i]]
            /\ rating_count(mos_result[i]) < rating_count(t)
            /\ mos_call.max_per_model >= 2

\* C15: the MOS sampler does not starve any model: whenever the number of
\* models that own a non-excluded sample is at most count, every such model
\* contributes at least one sample to the returned batch.
C15_NoModelStarved ==
    LET remaining == DOMAIN sample_model \ mos_call.exclude_ids
        owners == {sample_model[s] : s \in remaining}
    IN (mos_call # NoCall /\ Cardinality(owners) <= mos_call.count) =>
          \A m \in owners :
              \E i \in DOMAIN mos_result : sample_model[mos_result[i]] = m

\* C16: when the MOS sampler returns no sample for the rater, starting the
\* evaluation and every later render of the MOS page end in the
\* informational "No samples available" state and never in a runtime error.
C16_EmptyBatchIsInformational ==
    /\ view.screen # "mos_error"
    /\ (/\ session_state.authenticated
        /\ choice = "MOS Evaluation"
        /\ session_state.mos_started
        /\ ~Has(session_state, "mos_samples")) => view.screen = "mos_none"

(***************************************************************************)
(* The MOS recorder as a function of its arguments, called directly and    *)
(* through the rating form.                                                *)
(***************************************************************************)
\* The keys a ratings dictionary can hold.
RatingKeys == MOS_ATTRIBUTES \cup {"speaker_similarity"}

\* Score values handed to the recorder: below the range (0.5), its ends
\* (1.0 and 5.0), its middle (3.0) and above the range (5.5).
ScoreInputs == {1, 2, 6, 10, 11}

\* Slider positions submitted through the form: the ends and the default.
SliderInputs == SliderValues \cap {2, SliderDefault, 10}

\* One call of add_mos_rating on the empty table of the initial state, with
\* a dictionary over any of the keys.
CallAddMosRating ==
    /\ mos_rating_call = NoRatingCall
    /\ \E sample_id \in DOMAIN sample_model, user_id \in Users,
          ratings \in UNION {[K -> ScoreInputs] : K \in SUBSET RatingKeys} :
          /\ mos_rating_call' =
                [sample_id |-> sample_id, user_id |-> user_id,
                 ratings |-> ratings, form |-> FALSE,
                 raised |-> ~check_constraints(mos_row(sample_id, user_id, ratings))]
          /\ mos_ratings' = add_mos_rating(mos_ratings, sample_id, user_id, ratings)
    /\ UNCHANGED <<sample_model, sample_text, vote_count, ab_tests, mos_call,
                   mos_result, ab_call, ab_result, session_state, choice,
                   widgets, view, last_submit, ab_report, mos_report>>

\* show_rating_form and handle_rating_submission: the form of a sample is
\* submitted by a user with the slider positions sliders, on the empty
\* table of the initial state.
SubmitRatingForm ==
    /\ mos_rating_call = NoRatingCall
    /\ \E sample_id \in DOMAIN sample_model, user_id \in Users,
          sliders \in [MOS_ATTRIBUTES -> SliderInputs] :
          LET ratings == form_ratings(sliders)
          IN /\ mos_rating_call' =
                   [sample_id |-> sample_id, user_id |-> user_id,
                    ratings |-> ratings, form |-> TRUE,
                    raised |-> ~check_constraints(
                                   mos_row(sample_id, user_id, ratings))]
             /\ mos_ratings' =
                   add_mos_rating(mos_ratings, sample_id, user_id, ratings)
    /\ UNCHANGED <<sample_model, sample_text, vote_count, ab_tests, mos_call,
                   mos_result, ab_call, ab_result, session_state, choice,
                   widgets, view, last_submit, ab_report, mos_report>>

NextMosRecorder ==
    \/ CallAddMosRating
    \/ SubmitRatingForm

SpecMosRecorder == InitSession /\ [][NextMosRecorder]_vars

\* C17 as stated: every stored MOS rating row has naturalness,
\* intelligibility, pronunciation, prosody and overall in [1,5] and
\* speaker similarity in [1,5] or null, and a submission that holds an
\* out-of-range score writes no row.
C17_ScoresInRange ==
    LET in_range(v) == v # None /\ v >= 2 /\ v <= 10
        out_of_range(v) == v # None /\ (v < 2 \/ v > 10)
    IN /\ \A i \in DOMAIN mos_ratings :
             /\ in_range(mos_ratings[i].naturalness)
             /\ in_range(mos_ratings[i].intelligibility)
             /\ in_range(mos_ratings[i].pronunciation)
             /\ in_range(mos_ratings[i].prosody)
             /\ in_range(mos_ratings[i].overall_rating)
             /\ (\/ mos_ratings[i].speaker_similarity = None
                 \/ in_range(mos_ratings[i].speaker_similarity))
       /\ (\E k \in DOMAIN mos_rating_call.ratings :
              out_of_range(mos_rating_call.ratings[k])) => mos_ratings = << >>

\* C17 amended: every stored MOS rating row has each of its six scores in
\* [1,5] or null; a submission that holds an out-of-range score writes no row;
\* and a row written through the rating form has naturalness,
\* intelligibility, pronunciation, prosody and overall in [1,5] and a null
\* speaker similarity.
C17_ScoresInRangeOrNull ==
    LET in_range(v) == v # None /\ v >= 2 /\ v <= 10
        out_of_range(v) == v # None /\ (v < 2 \/ v > 10)
        row_ok(row) ==
            \A v \in {row.naturalness, row.intelligibility, row.pronunciation,
                       row.prosody, row.speaker_similarity, row.overall_rating} :
                v = None \/ in_range(v)
    IN /\ \A i \in DOMAIN mos_ratings : row_ok(mos_ratings[i])
       /\ (\E k \in DOMAIN mos_rating_call.ratings :
              out_of_range(mos_rating_call.ratings[k])) => mos_ratings = << >>
       /\ mos_rating_call.form =>
             /\ Len(mos_ratings) = 1
             /\ \A v \in {mos_ratings[1].naturalness,
                           mos_ratings[1].intelligibility,
                           mos_ratings[1].pronunciation, mos_ratings[1].prosody,
                           mos_ratings[1].overall_rating} : in_range(v)
             /\ mos_ratings[1].speaker_similarity = None

\* A call handed over one score above the range beside five scores in the
\* range, raised, and left the table empty.
C17_Witness ==
    /\ mos_rating_call.raised
    /\ mos_ratings = << >>
    /\ DOMAIN mos_rating_call.ratings = RatingKeys
    /\ mos_rating_call.ratings["prosody"] = 11
    /\ \A k \in RatingKeys \ {"prosody"} :
          mos_rating_call.ratings[k] >= 2 /\ mos_rating_call.ratings[k] <= 10

(***************************************************************************)
(* database.py: get_ab_results, and dashboard.py: the A/B report           *)
(***************************************************************************)
MaxVotes == 2

\* The rows of get_ab_results: one row for every (model_a, model_b) that a
\* stored comparison joins to, with its COUNTs.
get_ab_results_mut(tests) ==
    LET m1(i) == sample_model[tests[i].sample_a_id]
        m2(i) == sample_model[tests[i].sample_b_id]
        group(i) == IF m1(i) <= m2(i) THEN <<m1(i), m2(i)>> ELSE <<m2(i), m1(i)>>
        members(g) == {i \in DOMAIN tests : group(i) = g}
        wins(g, v) == Cardinality({i \in members(g) : tests[i].selected_sample = v})
    IN {[model_a |-> g[1], model_b |-> g[2],
         a_wins |-> wins(g, "A"), b_wins |-> wins(g, "B"),
         ties |-> wins(g, "tie"), total |-> Cardinality(members(g))] :
           g \in {group(i) : i \in DOMAIN tests}}
get_ab_results(tests) ==
    LET group(i) == <<sample_model[tests[i].sample_a_id],
                      sample_model[tests[i].sample_b_id]>>
        members(g) == {i \in DOMAIN tests : group(i) = g}
        wins(g, v) == Cardinality({i \in members(g) : tests[i].selected_sample = v})
    IN {[model_a |-> g[1], model_b |-> g[2],
         a_wins |-> wins(g, "A"), b_wins |-> wins(g, "B"),
         ties |-> wins(g, "tie"), total |-> Cardinality(members(g))] :
           g \in {group(i) : i \in DOMAIN tests}}

\* The integer square root, by bisection of lo..hi.
RECURSIVE isqrt_between(_, _, _)
isqrt_between(v, lo, hi) ==
    IF lo = hi THEN lo
    ELSE LET mid == (lo + hi + 1) \div 2
         IN IF mid * mid <= v THEN isqrt_between(v, mid, hi)
            ELSE isqrt_between(v, lo, mid - 1)

isqrt(v) == isqrt_between(v, 0, 46340)

\* A percentage is counted in hundredths of a percent: 4500 stands for 45%.
\* (row['a_wins'] / total_decisive) * 100
preference_ratio(a_wins, n) == (a_wins * 10000) \div n

\* z * np.sqrt((p * (1 - p) + z * z / (4 * n)) / n) / (1 + z * z / n) * 100
\* with z = 1.96 = 49/25 and p = a_wins / n: the expression equals
\* 2450 * sqrt(X / n) / D percent, for X = 2500 * a_wins * (n - a_wins) + 2401 * n
\* and D = 625 * n + 2401.
confidence_interval_mut(a_wins, n) ==
    LET X == 2500 * a_wins * (n - a_wins) + 2401 * n
        D == 625 * n + 2401
    IN (245000 * isqrt(X)) \div D
confidence_interval(a_wins, n) ==
    LET X == 2500 * a_wins * (n - a_wins) + 2401 * n
        D == 625 * n + 2401
    IN (2450 * isqrt(((X * 100) \div n) * 100)) \div D

\* (ties / total) * 100 if total > 0 else 0
tie_ratio(ties, total) == IF total > 0 THEN (ties * 10000) \div total ELSE 0

\* The if/elif chain of lines 217-228.
conclusion_mut(lower_bound, upper_bound) ==
    IF lower_bound >= 5500 THEN "better"
    ELSE IF lower_bound > 4500 /\ upper_bound > 5500 THEN "equivalent/better"
    ELSE IF lower_bound > 4500 /\ upper_bound < 5500 THEN "equivalent"
    ELSE IF lower_bound < 4500 /\ upper_bound < 5500 THEN "worse/equivalent"
    ELSE IF upper_bound < 4500 THEN "worse"
    ELSE "inconclusive"
conclusion(lower_bound, upper_bound) ==
    IF lower_bound > 5500 THEN "better"
    ELSE IF lower_bound > 4500 /\ upper_bound > 5500 THEN "equivalent/better"
    ELSE IF lower_bound > 4500 /\ upper_bound < 5500 THEN "equivalent"
    ELSE IF lower_bound < 4500 /\ upper_bound < 5500 THEN "worse/equivalent"
    ELSE IF upper_bound < 4500 THEN "worse"
    ELSE "inconclusive"

\* if total_decisive > 0:
has_decisive_votes_mut(row) == row.total > 0
has_decisive_votes(row) == row.a_wins + row.b_wins > 0

\* The first loop: the percentages of the summary chart of one row; zero
\* tells whether a division by zero was evaluated.
chart_row(row) ==
    IF row.total = 0
    THEN [model_a |-> row.model_a, model_b |-> row.model_b, zero |-> TRUE]
    ELSE [model_a |-> row.model_a, model_b |-> row.model_b, zero |-> FALSE,
          a_percent |-> (row.a_wins * 10000) \div row.total,
          b_percent |-> (row.b_wins * 10000) \div row.total,
          tie_percent |-> ((row.total - row.a_wins - row.b_wins) * 10000)
                             \div row.total]

\* The second loop: what is rendered for one row.
detail_row(row) ==
    LET total_decisive == row.a_wins + row.b_wins
        n == total_decisive
        base == [model_a |-> row.model_a, model_b |-> row.model_b,
                 a_wins |-> row.a_wins, b_wins |-> row.b_wins,
                 ties |-> row.ties, total |-> row.total]
    IN IF has_decisive_votes(row)
       THEN IF n = 0
            THEN Merge(base, [kind |-> "analysis", zero |-> TRUE])
            ELSE LET ratio == preference_ratio(row.a_wins, total_decisive)
                     ci == confidence_interval(row.a_wins, n)
                     lower_bound == IF ratio - ci > 0 THEN ratio - ci ELSE 0
                     upper_bound == IF ratio + ci < 10000 THEN ratio + ci
                                    ELSE 10000
                 IN Merge(base,
                       [kind |-> "analysis", zero |-> FALSE,
                        preference_ratio |-> ratio,
                        confidence_interval |-> ci,
                        lower_bound |-> lower_bound,
                        upper_bound |-> upper_bound,
                        conclusion |-> conclusion(lower_bound, upper_bound),
                        tie_note |-> tie_ratio(row.ties, row.total) > 3000])
       ELSE Merge(base, [kind |-> "not_enough_data", zero |-> FALSE])

\* show_ab_results_simplified on the rows ab_data.
show_ab_results_simplified(ab_data) ==
    IF ab_data = {} THEN [screen |-> "no_data"]
    ELSE [screen |-> "results",
          chart |-> {chart_row(row) : row \in ab_data},
          details |-> {detail_row(row) : row \in ab_data}]

(***************************************************************************)
(* The A/B report as a function of the stored comparisons.                 *)
(***************************************************************************)
\* The (sample_a_id, sample_b_id, selected_sample) of the stored rows, in
\* the order in which the tables of the initial states list them.
ReportKeys ==
    <<  <<1, 2, "A">>, <<1, 2, "B">>, <<1, 2, "tie">>,
        <<2, 1, "A">>, <<2, 1, "B">>, <<2, 1, "tie">>  >>

\* ab_tests tables that hold c[k] rows of the k-th key.
RECURSIVE AbTestsFromCounts(_, _)
AbTestsFromCounts(c, k) ==
    IF k > Len(ReportKeys) THEN << >>
    ELSE [i \in 1..c[k] |->
             [sample_a_id |-> ReportKeys[k][1], sample_b_id |-> ReportKeys[k][2],
              user_id |-> ((i - 1) % NumUsers) + 1,
              selected_sample |-> ReportKeys[k][3]]]
         \o AbTestsFromCounts(c, k + 1)

InitAbReport ==
    /\ sample_model = SessionSampleModel
    /\ sample_text = SessionSampleText
    /\ mos_ratings = << >>
    /\ mos_call = NoCall
    /\ mos_result = << >>
    /\ vote_count = [s \in DOMAIN sample_model |-> 0]
    /\ ab_tests \in {AbTestsFromCounts(c, 1) :
                       c \in [DOMAIN ReportKeys -> 0..MaxVotes]}
    /\ ab_call = NoAbCall
    /\ ab_result = << >>
    /\ session_state = InitialSession
    /\ choice = "Home"
    /\ widgets = DefaultWidgets
    /\ view = LoginView
    /\ last_submit = NoSubmit
    /\ mos_rating_call = NoRatingCall
    /\ ab_report = NoReport
    /\ mos_report = NoReport

\* The "A/B Tests" tab is rendered on the stored comparisons.
ShowAbResults ==
    /\ ab_report = NoReport
    /\ ab_report' = show_ab_results_simplified(get_ab_results(ab_tests))
    /\ UNCHANGED <<sample_model, sample_text, vote_count, mos_ratings, ab_tests,
                   mos_call, mos_result, ab_call, ab_result, session_state,
                   choice, widgets, view, last_submit, mos_rating_call, mos_report>>

NextAbReport == ShowAbResults

SpecAbReport == InitAbReport /\ [][NextAbReport]_vars

\* C18: rendering the A/B report never divides by zero, and a summary row
\* whose a_wins and b_wins are both 0 is reported as "not enough data", with
\* no interval and no conclusion.
C18_NoDivisionByZero ==
    ab_report.screen = "results" =>
        /\ \A c \in ab_report.chart : ~c.zero
        /\ \A d \in ab_report.details :
              /\ ~d.zero
              /\ d.a_wins + d.b_wins = 0 =>
                    /\ d.kind = "not_enough_data"
                    /\ DOMAIN d \cap {"preference_ratio", "confidence_interval",
                                      "lower_bound", "upper_bound", "conclusion",
                                      "tie_note"} = {}

\* The report holds a row of ties only, shown as "not enough data", beside
\* a row with decisive votes, for which the interval was computed.
C18_Witness ==
    /\ ab_report.screen = "results"
    /\ \E d \in ab_report.details :
          d.a_wins + d.b_wins = 0 /\ d.ties > 0 /\ d.kind = "not_enough_data"
    /\ \E d \in ab_report.details :
          d.a_wins + d.b_wins > 0 /\ d.kind = "analysis" /\ ~d.zero

\* C19: for every summary row with total > 0, the high-tie-rate note is
\* appended to the report exactly when ties / total > 0.30, whatever the
\* numbers of decisive votes are.
C19_TieNoteIffHighTieRate ==
    ab_report.screen = "results" =>
        \A d \in ab_report.details :
            d.total > 0 =>
                ((d.kind = "analysis" /\ d.tie_note) <=> (d.ties * 100 > 30 * d.total))

\* C20: every interval whose upper bound is below 45% is classified
\* "A is worse than B".
C20_UpperBelow45IsWorse ==
    ab_report.screen = "results" =>
        \A d \in ab_report.details :
            (d.kind = "analysis" /\ ~d.zero
                /\ 0 <= d.lower_bound /\ d.lower_bound <= d.upper_bound
                /\ d.upper_bound <= 10000 /\ d.upper_bound < 4500)
               => d.conclusion = "worse"

(***************************************************************************)
(* dashboard.py: the verdict of one summary row, as a function of the      *)
(* interval and as a function of the counts.                               *)
(***************************************************************************)
\* Interval bounds handed to the classification: every 5% from 0% to 100%
\* and the hundredths next to 45% and 55%.
IntervalInputs ==
    {5 * k * 100 : k \in 0..20} \cup {4499, 4501, 5499, 5501}

\* Numbers of wins or ties of a summary row.
VoteInputs == {0, 1, 2, 30, 70}

\* The if/elif chain is applied to the interval (lower_bound, upper_bound).
ClassifyInterval ==
    /\ ab_report = NoReport
    /\ \E lower_bound \in IntervalInputs, upper_bound \in IntervalInputs :
          /\ lower_bound <= upper_bound
          /\ ab_report' = [screen |-> "verdict",
                           lower_bound |-> lower_bound,
                           upper_bound |-> upper_bound,
                           conclusion |-> conclusion(lower_bound, upper_bound)]
    /\ UNCHANGED <<sample_model, sample_text, vote_count, mos_ratings, ab_tests,
                   mos_call, mos_result, ab_call, ab_result, session_state,
                   choice, widgets, view, last_submit, mos_rating_call, mos_report>>

\* The body of the second loop is applied to one summary row of models 1
\* and 2.
RenderSummaryRow ==
    /\ ab_report = NoReport
    /\ \E a_wins \in VoteInputs, b_wins \in VoteInputs, ties \in VoteInputs :
          /\ a_wins + b_wins + ties > 0
          /\ ab_report' =
                [screen |-> "row",
                 detail |-> detail_row([model_a |-> 1, model_b |-> 2,
                                        a_wins |-> a_wins, b_wins |-> b_wins,
                                        ties |-> ties,
                                        total |-> a_wins + b_wins + ties])]
    /\ UNCHANGED <<sample_model, sample_text, vote_count, mos_ratings, ab_tests,
                   mos_call, mos_result, ab_call, ab_result, session_state,
                   choice, widgets, view, last_submit, mos_rating_call, mos_report>>

NextAbVerdict ==
    \/ ClassifyInterval
    \/ RenderSummaryRow

SpecAbVerdict == InitSession /\ [][NextAbVerdict]_vars

C22_BetterIffLowerAbove55 ==
    (/\ ab_report.screen = "verdict"
     /\ 0 <= ab_report.lower_bound
     /\ ab_report.lower_bound <= ab_report.upper_bound
     /\ ab_report.upper_bound <= 10000)
        => (ab_report.conclusion = "better" <=> ab_report.lower_bound > 5500)

\* An interval whose lower bound is just above 55% was classified "better".
C22_Witness ==
    /\ ab_report.screen = "verdict"
    /\ ab_report.lower_bound = 5501
    /\ ab_report.conclusion = "better"

\* C23: for a_wins = 70, b_wins = 30, ties = 0 the computed interval has
\* lower > 55 and the classification is "A is better than B".
C23_SeventyThirtyIsBetter ==
    (/\ ab_report.screen = "row"
     /\ ab_report.detail.a_wins = 70
     /\ ab_report.detail.b_wins = 30
     /\ ab_report.detail.ties = 0)
        => /\ ab_report.detail.kind = "analysis"
           /\ ab_report.detail.preference_ratio = 7000
           /\ ab_report.detail.lower_bound > 5500
           /\ ab_report.detail.upper_bound <= 10000
           /\ ab_report.detail.conclusion = "better"

\* The row 70/30/0 was rendered, with the interval 61.15% .. 78.84%.
C23_Witness ==
    /\ ab_report.screen = "row"
    /\ ab_report.detail.a_wins = 70
    /\ ab_report.detail.b_wins = 30
    /\ ab_report.detail.ties = 0
    /\ ab_report.detail.lower_bound \in 6110..6120
    /\ ab_report.detail.upper_bound \in 7880..7890

\* C24: the A/B summary has exactly one row for every ordered (model of
\* sample A, model of sample B) of a stored comparison and no other row;
\* comparisons stored as (X,Y) and as (Y,X) are counted in separate rows; a
\* stored comparison is counted in one row only, under a_wins, b_wins or
\* ties as its stored verdict says, and in the total of that row.
C24_OneRowPerOrderedPair ==
    ab_report # NoReport =>
        LET model_pair(i) == <<sample_model[ab_tests[i].sample_a_id],
                               sample_model[ab_tests[i].sample_b_id]>>
            stored(g, v) == {i \in DOMAIN ab_tests :
                                model_pair(i) = g /\ ab_tests[i].selected_sample = v}
            rows(R, g) == {r \in R : r.model_a = g[1] /\ r.model_b = g[2]}
            occurs(g) == \E i \in DOMAIN ab_tests : model_pair(i) = g
        IN IF ab_tests = << >> THEN ab_report.screen = "no_data"
           ELSE /\ ab_report.screen = "results"
                /\ \A g \in Models \X Models :
                      /\ Cardinality(rows(ab_report.details, g))
                            = (IF occurs(g) THEN 1 ELSE 0)
                      /\ Cardinality(rows(ab_report.chart, g))
                            = (IF occurs(g) THEN 1 ELSE 0)
                      /\ \A d \in rows(ab_report.details, g) :
                            /\ d.a_wins = Cardinality(stored(g, "A"))
                            /\ d.b_wins = Cardinality(stored(g, "B"))
                            /\ d.ties = Cardinality(stored(g, "tie"))
                            /\ d.total = d.a_wins + d.b_wins + d.ties

\* Comparisons were stored in both orientations of the models 1 and 2, with
\* different verdicts, and the report shows the two rows.
C24_Witness ==
    /\ ab_report # NoReport
    /\ ab_report.screen = "results"
    /\ \E d1 \in ab_report.details, d2 \in ab_report.details :
          /\ d1.model_a = 1 /\ d1.model_b = 2
          /\ d2.model_a = 2 /\ d2.model_b = 1
          /\ d1.a_wins = 2 /\ d1.b_wins = 0 /\ d1.ties = 1
          /\ d2.a_wins = 0 /\ d2.b_wins = 1 /\ d2.ties = 0

(***************************************************************************)
(* database.py: get_all_mos_data, and dashboard.py: the MOS report         *)
(***************************************************************************)
MaxMosRows == 2

\* The elements of the set S of numbers, in ascending order.
RECURSIVE SortedSeq(_)
SortedSeq(S) ==
    IF S = {} THEN << >>
    ELSE LET m == CHOOSE x \in S : \A y \in S : x <= y
         IN <<m>> \o SortedSeq(S \ {m})

\* get_all_mos_data: the rows of mos_ratings joined to the model of their
\* sample; the query has no ORDER BY, so the rows come in any order.  The
\* model_name is the number of the model, and rating_id the position of the
\* row in the table.
get_all_mos_data(ratings) ==
    LET joined(i) == Merge(ratings[i],
                        [rating_id |-> i,
                         model_name |-> sample_model[ratings[i].sample_id]])
        rows == {joined(i) : i \in DOMAIN ratings}
    IN RandomOrders(rows, Cardinality(rows))

\* sorted(df_raw['model_name'].unique())
available_models(raw_data) == {raw_data[i].model_name : i \in DOMAIN raw_data}

\* The options of the "Evaluation Metrics" multiselect.
available_metrics ==
    {"naturalness", "intelligibility", "pronunciation", "prosody",
     "speaker_similarity", "overall_rating"}

\* filtered_df[filtered_df['model_name'].isin(selected_models)], applied
\* only `if selected_models:`.
filter_models_mut(raw_data, selected_models) ==
    SelectSeq(raw_data, LAMBDA r : r.model_name \in selected_models)
filter_models(raw_data, selected_models) ==
    IF selected_models # {}
    THEN SelectSeq(raw_data, LAMBDA r : r.model_name \in selected_models)
    ELSE raw_data

RECURSIVE SumSeq(_)
SumSeq(values) ==
    IF values = << >> THEN 0 ELSE Head(values) + SumSeq(Tail(values))

\* The values a 'mean' aggregation averages: a null is skipped.
non_null_mut(values) == [i \in DOMAIN values |->
                            IF values[i] = None THEN 0 ELSE values[i]]
non_null(values) == SelectSeq(values, LAMBDA v : v # None)

\* The 'mean' of a column of a group, in hundredths of a half point: NaN
\* (None) for a group without a value.
mean(values) ==
    LET kept == non_null(values)
    IN IF kept = << >> THEN None ELSE (SumSeq(kept) * 100) \div Len(kept)

\* filtered_df.groupby('model_name').agg(agg_functions).reset_index(): one
\* row per model_name of the frame, in ascending order of model_name.
agg_df(filtered_df, selected_metrics) ==
    LET group(m) == SelectSeq(filtered_df, LAMBDA r : r.model_name = m)
        column(m, metric) == [i \in DOMAIN group(m) |-> group(m)[i][metric]]
        names == SortedSeq(available_models(filtered_df))
    IN [k \in DOMAIN names |->
           [model_name |-> names[k],
            means |-> [metric \in selected_metrics |->
                          mean(column(names[k], metric))],
            total_ratings |-> Len(group(names[k]))]]

\* show_mos_results_simplified on the rows raw_data, with the selections of
\* the two multiselects of the sidebar.
show_mos_results_simplified(raw_data, selected_models, selected_metrics) ==
    IF raw_data = << >> THEN [screen |-> "no_data"]
    ELSE LET summary == agg_df(filter_models(raw_data, selected_models),
                               selected_metrics)
         IN IF Len(summary) > 0
            THEN [screen |-> "results",
                  selected_models |-> selected_models,
                  selected_metrics |-> selected_metrics,
                  summary |-> summary]
            ELSE [screen |-> "no_match",
                  selected_models |-> selected_models,
                  selected_metrics |-> selected_metrics]

(***************************************************************************)
(* The dashboard as a function of the stored ratings and comparisons.      *)
(***************************************************************************)
\* Scores of the stored rows: 1.0 and 3.5 for naturalness; NULL, which the
\* rating form writes, and 2.0 for speaker_similarity.
NaturalnessInputs == {2, 7}
SimilarityInputs == {None, 4}

\* The metrics selected in the sidebar.
MetricInputs == {"naturalness", "speaker_similarity"}

MosReportRows ==
    {mos_row(s, 1, [k \in RatingKeys |->
                       IF k = "naturalness" THEN n
                       ELSE IF k = "speaker_similarity" THEN w
                       ELSE SliderDefault]) :
        s \in DOMAIN SessionSampleModel, n \in NaturalnessInputs,
        w \in SimilarityInputs}

InitDashboard ==
    /\ sample_model = SessionSampleModel
    /\ sample_text = SessionSampleText
    /\ \/ /\ mos_ratings \in UNION {[1..n -> MosReportRows] : n \in 0..MaxMosRows}
          /\ ab_tests = << >>
       \/ /\ mos_ratings = << >>
          /\ ab_tests \in {AbTestsFromCounts(c, 1) :
                             c \in [DOMAIN ReportKeys -> 0..1]}
    /\ mos_call = NoCall
    /\ mos_result = << >>
    /\ vote_count = [s \in DOMAIN sample_model |-> 0]
    /\ ab_call = NoAbCall
    /\ ab_result = << >>
    /\ session_state = InitialSession
    /\ choice = "Home"
    /\ widgets = DefaultWidgets
    /\ view = LoginView
    /\ last_submit = NoSubmit
    /\ mos_rating_call = NoRatingCall
    /\ ab_report = NoReport
    /\ mos_report = NoReport

\* The rows of get_ab_results in the order of the result set: the query
\* has no ORDER BY, so the groups come in any order.
ab_data_orders(tests) ==
    RandomOrders(get_ab_results(tests), Cardinality(get_ab_results(tests)))

\* show_results: one script run renders the "MOS" tab on the stored ratings,
\* with the selections of the sidebar, and the "A/B Tests" tab on the stored
\* comparisons; df.iterrows() visits the summary rows in the order rows.
ShowResults ==
    /\ \E raw_data \in get_all_mos_data(mos_ratings) :
          \E selected_models \in SUBSET available_models(raw_data),
             selected_metrics \in SUBSET MetricInputs :
             mos_report' = show_mos_results_simplified(
                               raw_data, selected_models, selected_metrics)
    /\ \E rows \in ab_data_orders(ab_tests) :
          ab_report' = Merge(show_ab_results_simplified(Range(rows)),
                             [rows |-> rows])
    /\ UNCHANGED <<sample_model, sample_text, vote_count, mos_ratings, ab_tests,
                   mos_call, mos_result, ab_call, ab_result, session_state,
                   choice, widgets, view, last_submit, mos_rating_call>>

NextDashboard == ShowResults

SpecDashboard == InitDashboard /\ [][NextDashboard]_vars

\* C25: in the per-model MOS summary the mean of a selected attribute is
\* the sum of the non-null values of the model's ratings divided by their
\* number, a null counting in neither, and the rating count counts every
\* rating row of the model.
C25_MeanSkipsNull ==
    (mos_report # NoReport /\ mos_report.screen = "results") =>
        \A k \in DOMAIN mos_report.summary :
            LET row == mos_report.summary[k]
                of_model == {i \in DOMAIN mos_ratings :
                                sample_model[mos_ratings[i].sample_id]
                                   = row.model_name}
            IN /\ row.total_ratings = Cardinality(of_model)
               /\ \A metric \in mos_report.selected_metrics :
                     LET valued == {i \in of_model :
                                       mos_ratings[i][metric] # None}
                         count(v) == Cardinality({i \in valued :
                                       mos_ratings[i][metric] = v})
                         total == SumSeq([v \in 1..10 |-> v * count(v)])
                     IN IF valued = {} THEN row.means[metric] = None
                        ELSE /\ row.means[metric] # None
                             /\ row.means[metric] * Cardinality(valued)
                                   <= total * 100
                             /\ total * 100
                                   < (row.means[metric] + 1) * Cardinality(valued)

\* A model has one rating with speaker_similarity 2.0 and one without: the
\* mean is 2.0 and the rating count 2.
C25_Witness ==
    /\ mos_report # NoReport
    /\ mos_report.screen = "results"
    /\ "speaker_similarity" \in mos_report.selected_metrics
    /\ \E k \in DOMAIN mos_report.summary :
          /\ mos_report.summary[k].total_ratings = 2
          /\ mos_report.summary[k].means["speaker_similarity"] = 400
    /\ \E i \in DOMAIN mos_ratings : mos_ratings[i].speaker_similarity = None

\* C26: the per-model MOS summary is filtered before it is grouped: for
\* every selection of models, the empty one included, the summary has a row
\* for the selected models and for no other model, and the row of a model
\* is computed from the ratings of that model only.
C26_RowsAreTheSelectedModels ==
    (mos_report # NoReport /\ mos_report.screen \in {"results", "no_match"}) =>
        LET summary == IF mos_report.screen = "results"
                       THEN mos_report.summary ELSE << >>
        IN /\ {summary[k].model_name : k \in DOMAIN summary}
                 = mos_report.selected_models
           /\ \A k \in DOMAIN summary :
                 summary[k].total_ratings =
                    Cardinality({i \in DOMAIN mos_ratings :
                                    sample_model[mos_ratings[i].sample_id]
                                       = summary[k].model_name})

\* C28: the aggregation is a pure function of the stored ratings: a run of
\* the MOS summary or of the A/B summary that follows another run, with no
\* rating written in between and with the same selections, yields the same
\* output (same rows, same values, same row order), and a run writes
\* nothing to storage.
C28_AggregationIsPure ==
    [][/\ mos_ratings' = mos_ratings
       /\ ab_tests' = ab_tests
       /\ vote_count' = vote_count
       /\ ab_report # NoReport => ab_report' = ab_report
       /\ (/\ mos_report # NoReport
           /\ mos_report.screen # "no_data"
           /\ mos_report'.screen # "no_data"
           /\ mos_report'.selected_models = mos_report.selected_models
           /\ mos_report'.selected_metrics = mos_report.selected_metrics)
             => mos_report' = mos_report]_vars

(***************************************************************************)
(* database.py: add_ab_rating followed by get_ab_results                   *)
(***************************************************************************)
\* One call of add_ab_rating, with any two sample ids of table samples.
CallAddAbRating ==
    /\ Len(ab_tests) < MaxAbTests
    /\ ab_report = NoReport
    /\ \E sample_a_id \in DOMAIN sample_model, sample_b_id \in DOMAIN sample_model,
          user_id \in Users, selected \in {"A", "B", "tie"} :
          ab_tests' = add_ab_rating(ab_tests, sample_a_id, sample_b_id,
                                    user_id, selected)
    /\ UNCHANGED <<sample_model, sample_text, vote_count, mos_ratings, mos_call,
                   mos_result, ab_call, ab_result, session_state, choice,
                   widgets, view, last_submit, mos_rating_call, ab_report,
                   mos_report>>

NextAbRecorder ==
    \/ CallAddAbRating
    \/ ShowAbResults

SpecAbRecorder == InitSession /\ [][NextAbRecorder]_vars

\* C27: a comparison whose two samples belong to the same model, or have
\* different texts, is a data-integrity error: the recorder does not write
\* it, and the aggregator counts it in no summary row.
C27_IntegrityErrorsRejected ==
    LET well_formed(i) ==
            /\ sample_model[ab_tests[i].sample_a_id]
                  # sample_model[ab_tests[i].sample_b_id]
            /\ sample_text[ab_tests[i].sample_a_id]
                  = sample_text[ab_tests[i].sample_b_id]
    IN /\ \A i \in DOMAIN ab_tests : well_formed(i)
       /\ ab_report.screen = "results" =>
             \A d \in ab_report.details :
                d.total = Cardinality(
                    {i \in DOMAIN ab_tests :
                        /\ well_formed(i)
                        /\ sample_model[ab_tests[i].sample_a_id] = d.model_a
                        /\ sample_model[ab_tests[i].sample_b_id] = d.model_b})

\* C29: the A/B start reports "No unrated sample pairs remaining!", which
\* it does when the sampler returns no pair, only when no valid pair
\* remains for the rater: no pair of samples of different models with the
\* same text, whose first model is model A when the filter is set, that is
\* absent from the rated pairs in both orientations.
C29_NoPairsOnlyWhenNoneRemain ==
    (ab_call # NoAbCall /\ ab_result = << >>) =>
        ~ \E p \in (DOMAIN sample_model) \X (DOMAIN sample_model) :
              /\ p[1] # p[2]
              /\ sample_text[p[1]] = sample_text[p[2]]
              /\ sample_model[p[1]] # sample_model[p[2]]
              /\ (ab_call.model_a # None => sample_model[p[1]] = ab_call.model_a)
              /\ <<p[1], p[2]>> \notin ab_call.exclude_pairs
              /\ <<p[2], p[1]>> \notin ab_call.exclude_pairs

(***************************************************************************)
(* A session of the MOS page, on the samples table of the MOS session, or  *)
(* a session of the A/B page, on the samples table of the A/B session.     *)
(***************************************************************************)
InitFlows == InitMosSession \/ InitSession

NextFlows ==
    \/ (sample_model = MosSessionSampleModel /\ NextMos)
    \/ (sample_model = SessionSampleModel /\ NextAb)

SpecFlows == InitFlows /\ [][NextFlows]_vars

\* C30: after every step of a MOS or an A/B session, a batch is in the
\* session state only together with its set of rated items; the set holds
\* ids of the current batch only, and is empty when a new batch has been
\* loaded; so the progress rated/total lies in [0,1], and "completed all"
\* is shown exactly when every item of the current batch has been rated in
\* this batch.
C30_RatedWithinBatch ==
    [][LET ss == session_state'
           v == view'
       IN /\ Has(ss, "mos_samples") =>
                /\ Has(ss, "rated_samples")
                /\ ss.rated_samples \subseteq Range(ss.mos_samples)
                /\ (\/ ~Has(session_state, "mos_samples")
                    \/ session_state.mos_samples # ss.mos_samples)
                      => ss.rated_samples = {}
          /\ Has(ss, "ab_samples") =>
                /\ Has(ss, "rated_pairs")
                /\ ss.rated_pairs \subseteq
                      {pair_id_of(p) : p \in Range(ss.ab_samples)}
                /\ (\/ ~Has(session_state, "ab_samples")
                    \/ session_state.ab_samples # ss.ab_samples)
                      => ss.rated_pairs = {}
          /\ v.screen = "mos_grid" =>
                /\ v.samples = ss.mos_samples
                /\ v.progress[2] >= 1
                /\ v.progress[1] \in 0..v.progress[2]
                /\ v.completed <=> (\A x \in Range(v.samples) :
                                       x \in ss.rated_samples)
          /\ v.screen = "ab_grid" =>
                /\ v.pairs = ss.ab_samples
                /\ v.progress[2] >= 1
                /\ v.progress[1] \in 0..v.progress[2]
                /\ v.completed <=> (\A p \in Range(v.pairs) :
                                       pair_id_of(p) \in ss.rated_pairs)]_vars

\* The MOS grid shows "completed all" for a batch of two samples, both
\* rated in this batch.
C30_Witness ==
    /\ view.screen = "mos_grid"
    /\ view.completed
    /\ Len(session_state.mos_samples) = 2
    /\ session_state.rated_samples = Range(session_state.mos_samples)
====
